---- MODULE Spec2Model ----
(***************************************************************************)
(* Model of the finance dashboard in src/main.py (src/backup.py is the     *)
(* same script without the budget feature).                                *)
(*                                                                         *)
(* The script is re-executed top to bottom on every user interaction, so   *)
(* every action below is one complete script run: the module-level load    *)
(* of the two JSON documents, load_transactions/categorize_transactions,   *)
(* then the handlers of main() in source order.                            *)
(*                                                                         *)
(* Text is a sequence of one-character strings, so that lower() and        *)
(* strip() are computed and not assumed.  Amounts and budgets are whole    *)
(* currency units; percentages are kept in tenths of a percent.            *)
(***************************************************************************)
EXTENDS Integers, Sequences, FiniteSets, TLC

VARIABLES
    categories,      \* st.session_state.categories: ordered dict name -> keyword list
    budgets,         \* st.session_state.budgets: dict name -> amount
    catFile,         \* categories.json: whether it exists, and its content
    budgetFile,      \* budgets.json: whether it exists, and its content
    budget_input,    \* widget state of the number_input keyed budget_<cat>
    rows,            \* the uploaded CSV, parsed: Details, Amount, Debit/Credit
    df_cat,          \* Category column of df as returned by load_transactions
    debits_cat,      \* Category column of st.session_state.debits_df (0 on credit rows)
    category_totals, \* the Expense Summary frame
    event,           \* the interaction that triggered the last script run
    ret              \* the add_keyword_to_category calls of the last run, in order

vars == <<categories, budgets, catFile, budgetFile, budget_input, rows,
          df_cat, debits_cat, category_totals, event, ret>>

----------------------------------------------------------------------------
(* Bounds of the model *)

MaxRows == 2        \* rows in the uploaded file
BudgetUnit == 3     \* the non-zero value a budget input can be set to

----------------------------------------------------------------------------
(* Text *)

Uncategorized == "Uncategorized"
Debit == "Debit"
Credit == "Credit"

\* Names typed into the "New Category Name" input ("" is the empty input).
NewNames == {"Food", Uncategorized, ""}

MoreNames == NewNames \cup {"Fun"}

\* str.lower() of one character
LowerChar(c) ==
    CASE c = "A" -> "a"
      [] c = "B" -> "b"
      [] OTHER -> c

\* str.lower()
Lower(s) == [i \in 1..Len(s) |-> LowerChar(s[i])]

IsSpace(c) == c = " "

\* str.strip() with no argument: leading and trailing whitespace removed
RECURSIVE LStrip(_)
LStrip(s) ==
    IF s # <<>> /\ IsSpace(Head(s)) THEN LStrip(Tail(s)) ELSE s

RECURSIVE RStrip(_)
RStrip(s) ==
    IF s # <<>> /\ IsSpace(s[Len(s)]) THEN RStrip(SubSeq(s, 1, Len(s) - 1)) ELSE s

Strip(s) == RStrip(LStrip(s))

Range(s) == {s[i] : i \in 1..Len(s)}

----------------------------------------------------------------------------
(* The Category Store: a dict in insertion order *)

DefaultCategories == << [name |-> Uncategorized, keywords |-> <<>>] >>

Keys(store) == {store[i].name : i \in 1..Len(store)}

\* position of a key in the dict, 0 when it is absent
Index(store, name) ==
    IF name \in Keys(store)
    THEN CHOOSE i \in 1..Len(store) : store[i].name = name
    ELSE 0

\* lowered_keywords = [keyword.lower().strip() for keyword in keywords]
LoweredKeywords(keywords) ==
    [j \in 1..Len(keywords) |-> Strip(Lower(keywords[j]))]

\* t occurs in d as a contiguous part
Contains(t, d) ==
    /\ Len(t) <= Len(d)
    /\ \E o \in 0..(Len(d) - Len(t)) : \A j \in 1..Len(t) : d[o + j] = t[j]

\* Variant of the loop that keeps the first match: a row that has a
\* category is not assigned again
RECURSIVE CategorizeFrom_FirstMatch(_, _, _, _)
CategorizeFrom_FirstMatch(store, rws, k, col) ==
    IF k > Len(store) THEN col
    ELSE IF store[k].name = Uncategorized \/ store[k].keywords = <<>>
         THEN CategorizeFrom_FirstMatch(store, rws, k + 1, col)
         ELSE LET lowered_keywords == LoweredKeywords(store[k].keywords)
                  col2 == [i \in 1..Len(rws) |->
                              IF /\ col[i] = Uncategorized
                                 /\ Lower(rws[i].Details) \in Range(lowered_keywords)
                              THEN store[k].name
                              ELSE col[i]]
              IN CategorizeFrom_FirstMatch(store, rws, k + 1, col2)

\* Variant of the loop that matches a keyword anywhere in the detail text
RECURSIVE CategorizeFrom_Substring(_, _, _, _)
CategorizeFrom_Substring(store, rws, k, col) ==
    IF k > Len(store) THEN col
    ELSE IF store[k].name = Uncategorized \/ store[k].keywords = <<>>
         THEN CategorizeFrom_Substring(store, rws, k + 1, col)
         ELSE LET lowered_keywords == LoweredKeywords(store[k].keywords)
                  col2 == [i \in 1..Len(rws) |->
                              IF \E t \in Range(lowered_keywords) :
                                     Contains(t, Lower(rws[i].Details))
                              THEN store[k].name
                              ELSE col[i]]
              IN CategorizeFrom_Substring(store, rws, k + 1, col2)

\* categorize_transactions, the loop over st.session_state.categories.items()
\* from position k on; col is the Category column so far.
RECURSIVE CategorizeFrom(_, _, _, _)
CategorizeFrom(store, rws, k, col) ==
    IF k > Len(store) THEN col
    ELSE IF store[k].name = Uncategorized \/ store[k].keywords = <<>>
         THEN CategorizeFrom(store, rws, k + 1, col)
         ELSE LET lowered_keywords == LoweredKeywords(store[k].keywords)
                  col2 == [i \in 1..Len(rws) |->
                              IF Lower(rws[i].Details) \in Range(lowered_keywords)
                              THEN store[k].name
                              ELSE col[i]]
              IN CategorizeFrom(store, rws, k + 1, col2)

categorize_transactions(store, rws) ==
    CategorizeFrom(store, rws, 1, [i \in 1..Len(rws) |-> Uncategorized])

\* A document that does not exist yet
NoFile == [exists |-> FALSE, content |-> <<>>]

\* save_categories: json.dump of the dict; a dict of string lists is written
\* and read back key by key in insertion order.
save_categories(store) == [exists |-> TRUE, content |-> store]

\* save_budgets: json.dump of the budget dict
save_budgets(b) == [exists |-> TRUE, content |-> b]

\* Variant that returns False for a category that is not a key
add_keyword_to_category_Guarded(store, file, category, keyword) ==
    LET kw == Strip(keyword)
        k == Index(store, category)
    IN IF kw = <<>> \/ k = 0
       THEN [categories |-> store, file |-> file, result |-> "False"]
       ELSE IF kw \notin Range(store[k].keywords)
       THEN LET appended ==
                    [store EXCEPT ![k].keywords = Append(store[k].keywords, kw)]
            IN [categories |-> appended, file |-> save_categories(appended),
                result |-> "True"]
       ELSE [categories |-> store, file |-> file, result |-> "False"]

\* Variant that does not trim the keyword
add_keyword_to_category_NoStrip(store, file, category, keyword) ==
    LET kw == keyword
        k == Index(store, category)
    IN IF kw = <<>>
       THEN [categories |-> store, file |-> file, result |-> "False"]
       ELSE IF k = 0
       THEN [categories |-> store, file |-> file, result |-> "KeyError"]
       ELSE IF kw \notin Range(store[k].keywords)
       THEN LET appended ==
                    [store EXCEPT ![k].keywords = Append(store[k].keywords, kw)]
            IN [categories |-> appended, file |-> save_categories(appended),
                result |-> "True"]
       ELSE [categories |-> store, file |-> file, result |-> "False"]

\* Variant that does not call save_categories
add_keyword_to_category_NoSave(store, file, category, keyword) ==
    LET kw == Strip(keyword)
        k == Index(store, category)
    IN IF kw = <<>>
       THEN [categories |-> store, file |-> file, result |-> "False"]
       ELSE IF k = 0
       THEN [categories |-> store, file |-> file, result |-> "KeyError"]
       ELSE IF kw \notin Range(store[k].keywords)
       THEN [categories |->
                 [store EXCEPT ![k].keywords = Append(store[k].keywords, kw)],
             file |-> file, result |-> "True"]
       ELSE [categories |-> store, file |-> file, result |-> "False"]

\* add_keyword_to_category: the store and the category document after the
\* call, and its outcome (a returned bool, or the KeyError that the
\* subscript raises for a category that is not a key).
add_keyword_to_category(store, file, category, keyword) ==
    LET kw == Strip(keyword)
        k == Index(store, category)
    IN IF kw = <<>>
       THEN [categories |-> store, file |-> file, result |-> "False"]
       ELSE IF k = 0
       THEN [categories |-> store, file |-> file, result |-> "KeyError"]
       ELSE IF kw \notin Range(store[k].keywords)
       THEN LET appended ==
                    [store EXCEPT ![k].keywords = Append(store[k].keywords, kw)]
            IN [categories |-> appended, file |-> save_categories(appended),
                result |-> "True"]
       ELSE [categories |-> store, file |-> file, result |-> "False"]

----------------------------------------------------------------------------
(* The Budget Store and the Expense Summary *)

\* st.session_state.budgets.get(c, 0.0)
BudgetGet(b, c) == IF c \in DOMAIN b THEN b[c] ELSE 0

\* st.session_state.budgets.setdefault(c, 0.0) for every c of names
SetDefaults(b, names) ==
    [c \in (DOMAIN b) \cup names |-> IF c \in DOMAIN b THEN b[c] ELSE 0]

\* round(x, 1) of x = 100 * amount / budget, in tenths of a percent: the
\* nearest tenth, an exact tie going to the even one.
RoundTenths(amount, budget) ==
    LET n == 1000 * amount
        q == n \div budget
        r == n % budget
    IN IF 2 * r > budget THEN q + 1
       ELSE IF 2 * r < budget THEN q
       ELSE IF q % 2 = 0 THEN q ELSE q + 1

\* Variant that cuts the percentage off behind the first decimal
PercentUsed_Truncated(amount, budget) ==
    IF budget > 0 THEN (1000 * amount) \div budget ELSE 0

\* round((r["Amount"] / r["Budget"]) * 100, 1) if r["Budget"] > 0 else 0.0
PercentUsed(amount, budget) ==
    IF budget > 0 THEN RoundTenths(amount, budget) ELSE 0

DebitIdx(rws) == {i \in 1..Len(rws) : rws[i].DC = Debit}

\* groupby("Category")["Amount"].sum() of the debit rows, for one group
RECURSIVE GroupSum(_, _, _, _)
GroupSum(rws, col, c, i) ==
    IF i > Len(rws) THEN 0
    ELSE (IF rws[i].DC = Debit /\ col[i] = c THEN rws[i].Amount ELSE 0)
         + GroupSum(rws, col, c, i + 1)

\* groupby sorts the group keys; this is that order for the names used here
GroupOrder == <<"Food", "Fun", Uncategorized>>

\* sort_values(by="Amount", ascending=False): a row goes behind every row
\* whose Amount is not smaller (rows of equal Amount keep the group order)
RECURSIVE InsertDesc(_, _)
InsertDesc(sorted, r) ==
    IF sorted = <<>> THEN <<r>>
    ELSE IF Head(sorted).Amount >= r.Amount
         THEN <<Head(sorted)>> \o InsertDesc(Tail(sorted), r)
         ELSE <<r>> \o sorted

\* one row of the summary: the sum joined with Budget, Remaining and % Used
TotalsRow(rws, col, b, c) ==
    LET amount == GroupSum(rws, col, c, 1)
        budget == BudgetGet(b, c)
    IN [Category |-> c, Amount |-> amount, Budget |-> budget,
        Remaining |-> budget - amount,
        PctUsed |-> PercentUsed(amount, budget)]

RECURSIVE TotalsFrom(_, _, _, _, _)
TotalsFrom(rws, col, b, g, acc) ==
    IF g > Len(GroupOrder) THEN acc
    ELSE IF \E i \in DebitIdx(rws) : col[i] = GroupOrder[g]
         THEN TotalsFrom(rws, col, b, g + 1,
                         InsertDesc(acc, TotalsRow(rws, col, b, GroupOrder[g])))
         ELSE TotalsFrom(rws, col, b, g + 1, acc)

\* the Expense Summary frame
ExpenseSummary(rws, col, b) == TotalsFrom(rws, col, b, 1, <<>>)

----------------------------------------------------------------------------
(* One script run *)

\* Lines 12-29: the documents replace the session's stores when they exist,
\* and every category gets a budget entry.
Startup(S) ==
    LET cats == IF S.catFile.exists THEN S.catFile.content ELSE S.categories
        b == IF S.budgetFile.exists THEN S.budgetFile.content ELSE S.budgets
    IN [S EXCEPT !.categories = cats,
                 !.budgets = SetDefaults(b, Keys(cats))]

\* load_transactions and the debit split: df's Category column, and the
\* column of st.session_state.debits_df (credit rows are not in that frame)
LoadTransactions(S, rws) ==
    LET col == categorize_transactions(S.categories, rws)
    IN [S EXCEPT !.df_cat = col,
                 !.debits_cat = [i \in 1..Len(rws) |->
                                    IF rws[i].DC = Debit THEN col[i] ELSE ""]]

\* Variant of the loop that writes the budget document on every run
BudgetInputs_Saving(S) ==
    LET names == Keys(S.categories)
        w == [c \in (DOMAIN S.budget_input) \cup names |->
                IF c \in DOMAIN S.budget_input THEN S.budget_input[c]
                ELSE BudgetGet(S.budgets, c)]
        b == [c \in (DOMAIN S.budgets) \cup names |->
                IF c \in names THEN w[c] ELSE S.budgets[c]]
    IN [S EXCEPT !.budget_input = w,
                 !.budgets = b,
                 !.budgetFile = save_budgets(b)]

\* The "Category Budgets" loop: a number_input that is rendered for the
\* first time starts at the stored budget, afterwards it returns what the
\* user last entered; the returned value is written into the Budget Store.
BudgetInputs(S) ==
    LET names == Keys(S.categories)
        w == [c \in (DOMAIN S.budget_input) \cup names |->
                IF c \in DOMAIN S.budget_input THEN S.budget_input[c]
                ELSE BudgetGet(S.budgets, c)]
    IN [S EXCEPT !.budget_input = w,
                 !.budgets = [c \in (DOMAIN S.budgets) \cup names |->
                                 IF c \in names THEN w[c] ELSE S.budgets[c]]]

\* "Save Budgets"
SaveBudgetsHandler(S) == [S EXCEPT !.budgetFile = save_budgets(S.budgets)]

\* One add_keyword_to_category call: the row it was made for (0 for a call
\* outside the grid), the category passed and the outcome
Call(i, category, result) == [idx |-> i, category |-> category, result |-> result]

\* "Apply Changes": the loop over edited_df from row i on
RECURSIVE ApplyFrom(_, _, _, _)
ApplyFrom(S, rws, edited, i) ==
    IF i > Len(rws) THEN S
    ELSE IF rws[i].DC # Debit \/ edited[i] = S.debits_cat[i]
         THEN ApplyFrom(S, rws, edited, i + 1)
         ELSE LET r == add_keyword_to_category(S.categories, S.catFile,
                                               edited[i], rws[i].Details)
              IN ApplyFrom([S EXCEPT !.debits_cat[i] = edited[i],
                                     !.categories = r.categories,
                                     !.catFile = r.file,
                                     !.ret = Append(S.ret,
                                                    Call(i, edited[i], r.result))],
                           rws, edited, i + 1)

ApplyChangesHandler(S, rws, edited) == ApplyFrom(S, rws, edited, 1)

\* "Expense Summary"
Summary(S, rws) ==
    [S EXCEPT !.category_totals = ExpenseSummary(rws, S.debits_cat, S.budgets)]

\* The part of main() behind the Add Category block
RestOfMain(S, rws, inp) ==
    LET S1 == BudgetInputs(S)
        S2 == IF inp.save_button THEN SaveBudgetsHandler(S1) ELSE S1
        S3 == IF inp.apply_button THEN ApplyChangesHandler(S2, rws, inp.edited)
              ELSE S2
    IN Summary(S3, rws)

\* Variant that does not call save_budgets
AddCategoryHandler_NoBudgetSave(S, name) ==
    LET cats == Append(S.categories, [name |-> name, keywords |-> <<>>])
    IN [S EXCEPT !.categories = cats,
                 !.budgets = SetDefaults(S.budgets, {name}),
                 !.catFile = save_categories(cats)]

\* "Add Category": the new entry, its budget entry and both saves
AddCategoryHandler(S, name) ==
    LET cats == Append(S.categories, [name |-> name, keywords |-> <<>>])
        b == SetDefaults(S.budgets, {name})
    IN [S EXCEPT !.categories = cats,
                 !.budgets = b,
                 !.catFile = save_categories(cats),
                 !.budgetFile = save_budgets(b)]

\* A run with no button pressed
NoInput ==
    [new_category |-> "", add_button |-> FALSE, save_button |-> FALSE,
     apply_button |-> FALSE, edited |-> <<>>]

\* A whole run of the script.  st.rerun() in the Add Category block ends the
\* run there and starts the script again with no button pressed.
RunScript(S, rws, inp) ==
    LET S1 == LoadTransactions(Startup([S EXCEPT !.ret = <<>>]), rws)
    IN IF inp.add_button /\ inp.new_category # ""
          /\ inp.new_category \notin Keys(S1.categories)
       THEN LET S2 == LoadTransactions(
                          Startup(AddCategoryHandler(S1, inp.new_category)), rws)
            IN RestOfMain(S2, rws, NoInput)
       ELSE RestOfMain(S1, rws, inp)

----------------------------------------------------------------------------
(* State machine of the application *)

\* The session and the two documents, as one value
Session ==
    [categories |-> categories, budgets |-> budgets, catFile |-> catFile,
     budgetFile |-> budgetFile, budget_input |-> budget_input,
     df_cat |-> df_cat, debits_cat |-> debits_cat,
     category_totals |-> category_totals, ret |-> ret]

\* A new session: lines 12-18, no document on disk, no widget rendered yet
NewSession ==
    [categories |-> DefaultCategories, budgets |-> [c \in {} |-> 0],
     catFile |-> NoFile, budgetFile |-> NoFile,
     budget_input |-> [c \in {} |-> 0],
     df_cat |-> <<>>, debits_cat |-> <<>>, category_totals |-> <<>>,
     ret |-> <<>>]

Event(op, name, text) == [op |-> op, name |-> name, text |-> text]

\* The state a script run leaves behind
Commit(S, ev) ==
    /\ categories' = S.categories
    /\ budgets' = S.budgets
    /\ catFile' = S.catFile
    /\ budgetFile' = S.budgetFile
    /\ budget_input' = S.budget_input
    /\ df_cat' = S.df_cat
    /\ debits_cat' = S.debits_cat
    /\ category_totals' = S.category_totals
    /\ ret' = S.ret
    /\ event' = ev
    /\ UNCHANGED rows

Row(details, amount, dc) == [Details |-> details, Amount |-> amount, DC |-> dc]

\* A bank statement, parsed.  Its Details are a text that contains the next
\* one as a proper substring, a lower-case text, the same text in upper
\* case, the same text behind whitespace, and a text of whitespace only.
Statement ==
    << Row(<<"a", "b">>, 2, Credit),
       Row(<<"a">>, 1, Debit),
       Row(<<"A">>, 2, Debit),
       Row(<<" ", "a">>, 1, Debit),
       Row(<<" ">>, 2, Debit) >>

\* An uploaded file: up to MaxRows consecutive rows of the statement
Uploads ==
    {SubSeq(Statement, w[1], w[1] + w[2] - 1) :
        w \in {v \in (1..Len(Statement)) \X (1..MaxRows) :
                  v[1] + v[2] - 1 <= Len(Statement)}}

\* Values the user enters into a budget input (min_value=0.0)
BudgetValues == {0, BudgetUnit}

\* The first run of a new session with an uploaded file
Init ==
    \E up \in Uploads :
        LET S == RunScript(NewSession, up, NoInput)
        IN /\ rows = up
           /\ categories = S.categories
           /\ budgets = S.budgets
           /\ catFile = S.catFile
           /\ budgetFile = S.budgetFile
           /\ budget_input = S.budget_input
           /\ df_cat = S.df_cat
           /\ debits_cat = S.debits_cat
           /\ category_totals = S.category_totals
           /\ ret = S.ret
           /\ event = Event("start", "", <<>>)

\* An interaction that presses no button
\* "if uploaded_file is not None": a file is uploaded during the whole session
Uploaded == Len(rows) > 0

Rerun ==
    /\ Uploaded
    /\ Commit(RunScript(Session, rows, NoInput), Event("rerun", "", <<>>))

\* The Add Category button with a text in the name input
AddCategoryRun(name) ==
    Commit(RunScript(Session, rows,
                     [NoInput EXCEPT !.new_category = name, !.add_button = TRUE]),
           Event("add_category", name, <<>>))

AddCategory ==
    \E name \in NewNames :
        /\ Uploaded
        /\ AddCategoryRun(name)

AddCategoryCat ==
    \E name \in MoreNames :
        /\ Uploaded
        /\ AddCategoryRun(name)

\* The user changes one budget input
BudgetEdit ==
    \E c \in Keys(categories), v \in BudgetValues :
        /\ Uploaded
        /\ v # budget_input[c]
        /\ Commit(RunScript([Session EXCEPT !.budget_input[c] = v], rows, NoInput),
                  Event("budget_edit", c, <<>>))

\* The Save Budgets button
SaveBudgets ==
    /\ Uploaded
    /\ Commit(RunScript(Session, rows, [NoInput EXCEPT !.save_button = TRUE]),
              Event("save_budgets", "", <<>>))

\* The Apply Changes button, the grid holding the user's category choices
ApplyChanges ==
    \E edited \in [DebitIdx(rows) -> Keys(categories)] :
        /\ Uploaded
        /\ Commit(RunScript(Session, rows,
                            [NoInput EXCEPT !.apply_button = TRUE,
                                            !.edited = edited]),
                  Event("apply_changes", "", <<>>))

Next ==
    \/ Rerun
    \/ AddCategory
    \/ BudgetEdit
    \/ SaveBudgets
    \/ ApplyChanges

\* The whole application, with one category name to add
Spec == Init /\ [][Next]_vars

NextCat ==
    \/ Rerun
    \/ AddCategoryCat
    \/ ApplyChanges

\* The categorisation and learning loop, with two category names to add
SpecCat == Init /\ [][NextCat]_vars

\* Categories and keyword texts passed to add_keyword_to_category when it is
\* called on its own ("Fun" is never a key under NextKw)
CallCategories == {Uncategorized, "Food", "Fun"}

CallKeywords == { <<>>, <<" ">>, <<"a">>, <<" ", "a", " ">>, <<"A">> }

\* add_keyword_to_category called directly on the session's store
AddKeywordCall ==
    \E category \in CallCategories, keyword \in CallKeywords :
        LET r == add_keyword_to_category(categories, catFile, category, keyword)
        IN /\ categories' = r.categories
           /\ catFile' = r.file
           /\ ret' = <<Call(0, category, r.result)>>
           /\ event' = Event("add_keyword", category, keyword)
           /\ UNCHANGED <<budgets, budgetFile, budget_input, rows, df_cat,
                          debits_cat, category_totals>>

NextKw ==
    \/ AddCategory
    \/ AddKeywordCall

\* add_keyword_to_category as a function of the store and its arguments
SpecKw == Init /\ [][NextKw]_vars

----------------------------------------------------------------------------
(* Helpers of the properties *)

KeywordsOf(name) == categories[Index(categories, name)].keywords

\* Positions of the non-default categories one of whose lowered, trimmed
\* keywords equals the lowered detail text of row i
Matching(i) ==
    {k \in 1..Len(categories) :
        /\ categories[k].name # Uncategorized
        /\ \E j \in 1..Len(categories[k].keywords) :
               Strip(Lower(categories[k].keywords[j])) = Lower(rows[i].Details)}

First(K) == CHOOSE k \in K : \A m \in K : k <= m

Last(K) == CHOOSE k \in K : \A m \in K : k >= m

\* The store was not changed after the rows were categorised in the last run
CategorisedWithThisStore == event.op \in {"start", "rerun", "add_category"}

\* t occurs in d as a contiguous part, and is not all of d
ProperSubstring(t, d) ==
    /\ t # <<>>
    /\ Len(t) < Len(d)
    /\ Contains(t, d)

----------------------------------------------------------------------------
(* C1: tie-break of the Categorizer *)

\* C1 (as claimed): a row whose lowered detail text equals a keyword of two
\* or more non-default categories is assigned to the first of them in the
\* store's insertion order.
C1_FirstMatchWins ==
    CategorisedWithThisStore =>
        \A i \in 1..Len(rows) :
            Cardinality(Matching(i)) >= 2 =>
                df_cat[i] = categories[First(Matching(i))].name

\* C1 (amended): such a row is assigned to the last of the matching
\* categories in insertion order; every later match overwrites an earlier one.
C1_LastMatchWins ==
    CategorisedWithThisStore =>
        \A i \in 1..Len(rows) :
            Cardinality(Matching(i)) >= 2 =>
                df_cat[i] = categories[Last(Matching(i))].name

C1_Witness ==
    /\ event.op = "rerun"
    /\ \E i \in 1..Len(rows) :
           /\ Cardinality(Matching(i)) >= 2
           /\ df_cat[i] = categories[Last(Matching(i))].name
           /\ df_cat[i] # categories[First(Matching(i))].name

----------------------------------------------------------------------------
(* C3: the reserved category *)

\* C3: in every reachable state "Uncategorized" is a key of the Category
\* Store and its keyword list is empty.
C3_UncategorizedHasNoKeywords ==
    /\ Uncategorized \in Keys(categories)
    /\ KeywordsOf(Uncategorized) = <<>>

----------------------------------------------------------------------------
(* C4: learning takes effect on the next run *)

\* C4: when Apply Changes has learned a row's detail text, that is
\* add_keyword_to_category(C, row.detail) has returned True, the run that
\* follows categorises that row as C.
C4_LearningTakesEffect ==
    [][(event.op = "apply_changes" /\ event'.op = "rerun") =>
          \A j \in 1..Len(ret) :
              ret[j].result = "True" => df_cat'[ret[j].idx] = ret[j].category]_vars

----------------------------------------------------------------------------
(* C5: soundness of the Categorizer *)

\* C5: every row's category is "Uncategorized" or a category of the store
\* one of whose keywords, lowered and trimmed, equals the row's lowered
\* detail text; a keyword that is only a part of the detail text assigns
\* nothing.
C5_CategorizerSound ==
    \A i \in 1..Len(rows) :
        \/ df_cat[i] = Uncategorized
        \/ /\ df_cat[i] \in Keys(categories)
           /\ \E j \in 1..Len(KeywordsOf(df_cat[i])) :
                  Strip(Lower(KeywordsOf(df_cat[i])[j])) = Lower(rows[i].Details)

C5_Witness ==
    \E i, i2 \in 1..Len(rows) :
        /\ df_cat[i] = "Food"
        /\ df_cat[i2] = Uncategorized
        /\ \E j \in 1..Len(KeywordsOf("Food")) :
               ProperSubstring(Strip(Lower(KeywordsOf("Food")[j])),
                               Lower(rows[i2].Details))

----------------------------------------------------------------------------
(* C9: keyword lists *)

\* C9 (as claimed): no keyword list holds two entries that are equal after
\* trimming and lowercasing.
C9_NoDuplicateIgnoringCase ==
    \A k \in 1..Len(categories) :
        \A j1, j2 \in 1..Len(categories[k].keywords) :
            j1 # j2 =>
                Strip(Lower(categories[k].keywords[j1]))
                    # Strip(Lower(categories[k].keywords[j2]))

\* C9 (amended): every keyword is trimmed and not empty, and no keyword list
\* holds the same text twice; texts that differ only in letter case can
\* both be in a list.
C9_NoExactDuplicate ==
    \A k \in 1..Len(categories) :
        \A j1 \in 1..Len(categories[k].keywords) :
            /\ categories[k].keywords[j1] # <<>>
            /\ ~IsSpace(categories[k].keywords[j1][1])
            /\ ~IsSpace(categories[k].keywords[j1][Len(categories[k].keywords[j1])])
            /\ \A j2 \in 1..Len(categories[k].keywords) :
                   j1 # j2 => categories[k].keywords[j1] # categories[k].keywords[j2]

C9_Witness ==
    /\ event.op = "apply_changes"
    /\ \E j \in 1..Len(ret) :
           /\ ret[j].result = "False"
           /\ Strip(rows[ret[j].idx].Details) \in Range(KeywordsOf(ret[j].category))
    /\ \E k \in 1..Len(categories) :
           \E j1, j2 \in 1..Len(categories[k].keywords) :
               /\ j1 # j2
               /\ Lower(categories[k].keywords[j1]) = Lower(categories[k].keywords[j2])

----------------------------------------------------------------------------
(* C2: the contract of add_keyword_to_category *)

\* The store with kw appended to the keyword list of category c
WithKeyword(store, c, kw) ==
    [k \in 1..Len(store) |->
        IF store[k].name = c
        THEN [name |-> c, keywords |-> store[k].keywords \o <<kw>>]
        ELSE store[k]]

\* The call of this step returned `result` and changed neither the store nor
\* the category document
NoOpReturning(result) ==
    /\ ret' = <<Call(0, event'.name, result)>>
    /\ categories' = categories
    /\ catFile' = catFile

\* The call of this step appended the trimmed keyword, wrote the document
\* and returned True
AppendedAndSaved ==
    /\ ret' = <<Call(0, event'.name, "True")>>
    /\ categories' = WithKeyword(categories, event'.name, Strip(event'.text))
    /\ catFile'.exists
    /\ catFile'.content = categories'

----------------------------------------------------------------------------
(* C6: Add Category with a name that exists *)

\* C6: Add Category with a new non-empty name appends one entry with an
\* empty keyword list, gives it the budget 0 and writes both documents;
\* with a name that is a key already it leaves both stores and both
\* documents as they are.
C6_AddCategoryIdempotent ==
    [][event'.op = "add_category" =>
          IF event'.name \in Keys(categories)
          THEN /\ categories' = categories
               /\ budgets' = budgets
               /\ catFile' = catFile
               /\ budgetFile' = budgetFile
          ELSE event'.name # "" =>
               /\ categories' = categories \o <<[name |-> event'.name,
                                                  keywords |-> <<>>]>>
               /\ DOMAIN budgets' = (DOMAIN budgets) \cup {event'.name}
               /\ budgets'[event'.name] = 0
               /\ \A c \in DOMAIN budgets : budgets'[c] = budgets[c]
               /\ catFile'.exists
               /\ catFile'.content = categories'
               /\ budgetFile'.exists
               /\ event'.name \in DOMAIN budgetFile'.content
               /\ budgetFile'.content[event'.name] = 0]_vars

C6_Witness ==
    /\ event.op = "add_category"
    /\ event.name = "Food"
    /\ KeywordsOf("Food") # <<>>
    /\ budgets["Food"] > 0
    /\ budgetFile.content["Food"] = 0

----------------------------------------------------------------------------
(* C7: when the budget document is written *)

\* C7: the budget document changes only in a step that is a Save Budgets
\* run or a run that creates a category; a budget edit, Apply Changes with
\* its keyword learning and a plain re-run leave it as it is.
C7_BudgetFileWrittenOnlyOnSave ==
    [][budgetFile' # budgetFile =>
          \/ event'.op = "save_budgets"
          \/ /\ event'.op = "add_category"
             /\ Len(categories') = Len(categories) + 1]_vars

C7_Witness ==
    /\ event.op = "budget_edit"
    /\ budgetFile.exists
    /\ budgets[event.name] # budgetFile.content[event.name]

----------------------------------------------------------------------------
(* C8: % Used and Remaining *)

\* p is x rounded to one decimal, in tenths, for x = 100 * amount / budget:
\* no tenth is nearer, and of two equally near tenths p is the even one.
NearestTenth(p, amount, budget) ==
    LET err == p * budget - 1000 * amount
        dist == IF err < 0 THEN 0 - err ELSE err
    IN /\ 2 * dist <= budget
       /\ 2 * dist = budget => p % 2 = 0

\* C8: a summary row has % Used 0.0 when its budget (0.0 for a category
\* without budget entry) is 0.0 and round(100 * amount / budget, 1)
\* otherwise, which is 100.0 for amount = budget; Remaining is budget
\* minus amount, negative when the category is overspent.
C8_PercentUsed ==
    \A k \in 1..Len(category_totals) :
        LET r == category_totals[k]
        IN /\ r.Budget = (IF r.Category \in DOMAIN budgets
                          THEN budgets[r.Category] ELSE 0)
           /\ r.Budget = 0 => r.PctUsed = 0
           /\ r.Budget # 0 => NearestTenth(r.PctUsed, r.Amount, r.Budget)
           /\ (r.Budget # 0 /\ r.Amount = r.Budget) => r.PctUsed = 1000
           /\ r.Remaining + r.Amount = r.Budget

C8_Witness ==
    \E k \in 1..Len(category_totals) :
        /\ category_totals[k].Budget > 0
        /\ category_totals[k].Amount = category_totals[k].Budget
        /\ category_totals[k].PctUsed = 1000
        /\ category_totals[k].Remaining = 0

----------------------------------------------------------------------------
(* C10: the category document follows the Category Store *)

\* C10: whenever a step changes the Category Store, the category document
\* it leaves behind holds the new store; in every state the next run
\* loads the store the session holds.
C10_CategoriesPersisted ==
    /\ categories # DefaultCategories => catFile.exists
    /\ catFile.exists => catFile.content = categories
    /\ Startup(Session).categories = categories

C10_Witness ==
    /\ event.op = "apply_changes"
    /\ \E j \in 1..Len(ret) : ret[j].result = "True"
    /\ catFile.exists
    /\ catFile.content = categories

====
